---- MODULE Spec2Model ----
\* A model of the linestore Store (package store): an append-only record log
\* (data file) with a fixed-width offset index (index file).
\*
\* File contents are byte strings.  A byte string is kept run-length encoded:
\* a sequence of runs <<b, n>> (n >= 1 copies of byte b), adjacent runs having
\* different bytes, so that equal byte strings are equal values and a payload
\* of 2^20 bytes is one run.  All offsets and sizes are counted in bytes.
EXTENDS Integers, Sequences, FiniteSets, TLC

\* ---------------------------------------------------------------- bounds
MaxSets == 2          \* Set calls (successful or not) in one behaviour
MaxFaults == 2        \* injected I/O failures and crashes in one behaviour
MaxMaint == 1         \* Polish and Backup calls in one behaviour
NThreads == 2         \* threads sharing the Store
MaxCalls == 2         \* concurrent calls begun in one behaviour

\* ------------------------------------------------------ program constants
MaxValLen == 1048576  \* 1<<20, the read-side ceiling on a record's length
EntrySize == 16       \* bytes of one index entry
HeaderSize == 5       \* 1 type byte + 4 length bytes

\* Integers of the model are below 2^31; a decoded field that does not fit
\* is represented by Far, which is larger than every file size of the model.
Far == 2147483646 + 1

\* ------------------------------------------------------------ byte strings
Run(b, n) == IF n = 0 THEN <<>> ELSE << <<b, n>> >>

Cat(f, g) ==
    IF f = <<>> THEN g
    ELSE IF g = <<>> THEN f
    ELSE IF f[Len(f)][1] = g[1][1]
         THEN SubSeq(f, 1, Len(f) - 1)
                \o << <<g[1][1], f[Len(f)][2] + g[1][2]>> >> \o Tail(g)
         ELSE f \o g

RECURSIVE Size(_)
Size(f) == IF f = <<>> THEN 0 ELSE f[1][2] + Size(Tail(f))

RECURSIVE Drop(_, _)
Drop(f, off) ==
    IF f = <<>> \/ off = 0 THEN f
    ELSE IF off >= f[1][2] THEN Drop(Tail(f), off - f[1][2])
    ELSE << <<f[1][1], f[1][2] - off>> >> \o Tail(f)

RECURSIVE Take(_, _)
Take(f, n) ==
    IF f = <<>> \/ n = 0 THEN <<>>
    ELSE IF n >= f[1][2] THEN <<f[1]>> \o Take(Tail(f), n - f[1][2])
    ELSE << <<f[1][1], n>> >>

\* the bytes [off, off+n) of f, fewer when f ends before off+n
Slice(f, off, n) == Take(Drop(f, off), n)

\* the byte at offset off < Size(f)
ByteAt(f, off) == Drop(f, off)[1][1]

\* ------------------------------------------------------------------ codec
\* binary.LittleEndian.PutUint32 / PutUint64 of a value below 2^31
LE32(n) ==
    Cat(Run(n % 256, 1), Cat(Run((n \div 256) % 256, 1),
    Cat(Run((n \div 65536) % 256, 1), Run((n \div 16777216) % 256, 1))))

LE64(n) == Cat(LE32(n), Run(0, 4))

\* binary.Read of a uint32 at off (off + 4 <= Size(f))
U32At(f, off) ==
    IF ByteAt(f, off + 3) >= 128 THEN Far
    ELSE ByteAt(f, off) + 256 * ByteAt(f, off + 1)
           + 65536 * ByteAt(f, off + 2) + 16777216 * ByteAt(f, off + 3)

\* binary.LittleEndian.Uint64 of the 8 bytes at off (off + 8 <= Size(f));
\* -1 stands for a value of 2^63 or more, negative once converted to int64
U64At(f, off) ==
    IF ByteAt(f, off + 7) >= 128 THEN -1
    ELSE IF \E i \in 4..7 : ByteAt(f, off + i) # 0 THEN Far
    ELSE U32At(f, off)

\* the record Set and Polish build for a value
Record(value) == Cat(Run(0, 1), Cat(LE32(Size(value)), value))

\* the index entry Set and Polish build
IndexEntry(lineNum, dataOffset) == Cat(LE64(lineNum), LE64(dataOffset))

\* ------------------------------------------------------------------ paths
\* A path is the sequence of the name and the suffixes appended to it.
Db == <<"db">>
Bk == <<"bk">>
IdxPath(p) == p \o <<"idx">>
BackupPath(p) == p \o <<"backup">>
TmpPath(p) == p \o <<"tmp">>

Paths ==
    { Db, IdxPath(Db), IdxPath(IdxPath(Db)),
      BackupPath(Db), IdxPath(BackupPath(Db)),
      TmpPath(Db), TmpPath(IdxPath(Db)),
      Bk, IdxPath(Bk) }

\* a file of the disk: whether it exists, and its bytes
NoFile == [exists |-> FALSE, bytes |-> <<>>]
File(bytes) == [exists |-> TRUE, bytes |-> bytes]
NoStore == [path |-> <<>>, file |-> "nil", indexFile |-> "nil", lineCount |-> 0]

\* the bytes found at a path (none when the file does not exist)
Bytes(d, p) == d[p].bytes

\* os.OpenFile with O_CREATE: the file exists afterwards
Create(d, p) == IF d[p].exists THEN d ELSE [d EXCEPT ![p] = File(<<>>)]

\* os.OpenFile with O_CREATE|O_TRUNC
Truncate(d, p) == [d EXCEPT ![p] = File(<<>>)]

\* a write on a handle opened with O_APPEND
AppendTo(d, p, bytes) == [d EXCEPT ![p] = File(Cat(Bytes(d, p), bytes))]

\* a write at offset pos on a handle opened without O_APPEND: the bytes
\* replace what the file holds from pos on; a file that ends before pos is
\* filled with zero bytes up to pos
WriteAt(d, p, pos, bytes) ==
    LET f == Bytes(d, p)
        head == IF pos <= Size(f) THEN Take(f, pos)
                ELSE Cat(f, Run(0, pos - Size(f)))
    IN  [d EXCEPT ![p] = File(Cat(head, Cat(bytes, Drop(f, pos + Size(bytes)))))]

\* ------------------------------------------------------------- the payloads
P0 == <<>>
P1 == Run(1, 1)
PBig == Run(7, MaxValLen + 1)
Payloads == {P0, P1, PBig}

\* the bytes a failed write leaves behind: a proper prefix of what was written
Cuts == {0, 3}

VARIABLES
    disk,     \* path -> the file found there, or NoFile
    s,        \* the Store object: path, the two handles, lineCount
    ret,      \* the last call: operation, argument, error, value
    acked,    \* history: the <<ordinal, payload>> of every successful Set,
              \* in the order of the calls
    opened,   \* history: Len(acked) and lineCount when s was opened
    used,     \* history: the Set calls, faults, maintenance calls and
              \* concurrent calls so far
    mu,       \* the RWMutex of s: the thread holding it for writing (0 when
              \* none) and the threads holding it for reading
    th,       \* thread -> the call it is in: its position and its locals
    fpos      \* the file offsets of the two handles s.file and s.indexFile

vars == <<disk, s, ret, acked, opened, used, mu, th, fpos>>

\* the variables only concurrent calls change; a call running alone seeks
\* before every read, so its result does not depend on fpos
cvars == <<mu, th, fpos>>

Ok == "nil"

\* ------------------------------------------------------------- countLines
\* the scan loop of countLines from offset pos with n records counted
RECURSIVE scanRecords(_, _, _)
scanRecords(f, pos, n) ==
    IF pos >= Size(f) THEN [err |-> Ok, n |-> n]
    ELSE IF ByteAt(f, pos) # 0 THEN [err |-> "invalid record type", n |-> n]
    ELSE IF pos + HeaderSize > Size(f)
         THEN [err |-> "failed to read value length", n |-> n]
    ELSE IF U32At(f, pos + 1) >= Size(f) - (pos + HeaderSize)
         THEN [err |-> Ok, n |-> n + 1]
    ELSE scanRecords(f, pos + HeaderSize + U32At(f, pos + 1), n + 1)

\* countLines accepting an index file longer than 16 bytes per record
countLines_acceptsLongIndex(d, path) ==
    LET scan == scanRecords(Bytes(d, path), 0, 0)
        expectedSize == scan.n * EntrySize
    IN  IF scan.err # Ok THEN [err |-> scan.err, lineCount |-> 0]
        ELSE IF Size(Bytes(d, IdxPath(path))) < expectedSize
             THEN [err |-> "index file size does not match", lineCount |-> scan.n]
        ELSE [err |-> Ok, lineCount |-> scan.n]

countLines(d, path) ==
    LET scan == scanRecords(Bytes(d, path), 0, 0)
        expectedSize == scan.n * EntrySize
    IN  IF scan.err # Ok THEN [err |-> scan.err, lineCount |-> 0]
        ELSE IF Size(Bytes(d, IdxPath(path))) # expectedSize
             THEN [err |-> "index file size does not match", lineCount |-> scan.n]
        ELSE [err |-> Ok, lineCount |-> scan.n]

\* --------------------------------------------------------------- NewStore
\* fault: "none", "open" (the data file cannot be opened) or "iopen"
NewStoreOp(d, path, fault) ==
    IF fault = "open"
    THEN [disk |-> d, s |-> NoStore, err |-> "failed to open data file"]
    ELSE IF fault = "iopen"
    THEN [disk |-> Create(d, path), s |-> NoStore,
          err |-> "failed to open index file"]
    ELSE LET d2 == Create(Create(d, path), IdxPath(path))
             c == countLines(d2, path)
         IN  IF c.err # Ok
             THEN [disk |-> d2, s |-> NoStore, err |-> c.err]
             ELSE [disk |-> d2,
                   s |-> [path |-> path, file |-> "open", indexFile |-> "open",
                          lineCount |-> c.lineCount],
                   err |-> Ok]


\* -------------------------------------------------------------------- Set
\* Set raising lineCount before the index entry is written and synced
SetOp_countsBeforeIndex(d, st, value, fault, cut) ==
    LET path == st.path
        record == Record(value)
        dataOffset == Size(Bytes(d, path))
        lineNum == st.lineCount
        indexEntry == IndexEntry(lineNum, dataOffset)
        d1 == AppendTo(d, path, record)
        d2 == AppendTo(d1, IdxPath(path), indexEntry)
        counted == [st EXCEPT !.lineCount = lineNum + 1]
        fail(dd, ss, msg) == [disk |-> dd, s |-> ss, err |-> msg, val |-> 0]
    IN  IF st.file # "open" \/ fault = "seek"
        THEN fail(d, st, "failed to seek to end of data file")
        ELSE IF fault = "write"
        THEN fail(AppendTo(d, path, Take(record, cut)), st,
                  "failed to write record")
        ELSE IF fault = "sync"
        THEN fail(d1, st, "failed to sync data file")
        ELSE IF st.indexFile # "open"
        THEN fail(d1, counted, "failed to write index entry")
        ELSE IF fault = "iwrite"
        THEN fail(AppendTo(d1, IdxPath(path), Take(indexEntry, cut)), counted,
                  "failed to write index entry")
        ELSE IF fault = "isync"
        THEN fail(d2, counted, "failed to sync index file")
        ELSE [disk |-> d2, s |-> counted, err |-> Ok, val |-> lineNum]

\* fault: "none" or the step that fails: "seek", "write", "sync", "iwrite",
\* "isync"; cut: the bytes a failed write has written (below the full length)
SetOp(d, st, value, fault, cut) ==
    LET path == st.path
        record == Record(value)
        dataOffset == Size(Bytes(d, path))
        lineNum == st.lineCount
        indexEntry == IndexEntry(lineNum, dataOffset)
        d1 == AppendTo(d, path, record)
        d2 == AppendTo(d1, IdxPath(path), indexEntry)
        fail(dd, msg) == [disk |-> dd, s |-> st, err |-> msg, val |-> 0]
    IN  IF st.file # "open" \/ fault = "seek"
        THEN fail(d, "failed to seek to end of data file")
        ELSE IF fault = "write"
        THEN fail(AppendTo(d, path, Take(record, cut)), "failed to write record")
        ELSE IF fault = "sync"
        THEN fail(d1, "failed to sync data file")
        ELSE IF st.indexFile # "open"
        THEN fail(d1, "failed to write index entry")
        ELSE IF fault = "iwrite"
        THEN fail(AppendTo(d1, IdxPath(path), Take(indexEntry, cut)),
                  "failed to write index entry")
        ELSE IF fault = "isync"
        THEN fail(d2, "failed to sync index file")
        ELSE [disk |-> d2, s |-> [st EXCEPT !.lineCount = lineNum + 1],
              err |-> Ok, val |-> lineNum]

\* -------------------------------------------------- decoding one record
\* the type byte, the length and the value read at offset pos by Get, List,
\* ListAllReverse and Polish; next is the offset after the value
readRecord(f, pos) ==
    LET bad(msg) == [err |-> msg, value |-> <<>>, next |-> pos]
        valLen == U32At(f, pos + 1)
    IN  IF pos >= Size(f) THEN bad("failed to read type byte")
        ELSE IF ByteAt(f, pos) # 0 THEN bad("invalid record type")
        ELSE IF pos + HeaderSize > Size(f) THEN bad("failed to read value length")
        ELSE IF valLen > MaxValLen THEN bad("invalid value length")
        ELSE IF valLen > Size(f) - (pos + HeaderSize)
             THEN bad("failed to read value")
        ELSE [err |-> Ok, value |-> Slice(f, pos + HeaderSize, valLen),
              next |-> pos + HeaderSize + valLen]

\* the index entry of a line and the record it points to, as Get and
\* ListAllReverse read them.  The seek to the data offset fails for an offset
\* that is negative as an int64, and for one beyond what the file system
\* holding the file accepts; of an offset of 2^31 or more the model keeps
\* only that it is Far, and far tells whether the seek to it succeeds (it
\* does up to 2^63 - 1 on tmpfs and xfs, and fails from 2^44 on on ext4).
readLine(d, st, line, far) ==
    LET idx == Bytes(d, IdxPath(st.path))
        indexOffset == line * EntrySize
        dataOffset == U64At(idx, indexOffset + 8)
        bad(msg) == [err |-> msg, value |-> <<>>]
    IN  IF st.indexFile # "open" THEN bad("failed to seek to index offset")
        ELSE IF indexOffset + EntrySize > Size(idx)
             THEN bad("failed to read index entry")
        ELSE IF st.file # "open" \/ dataOffset < 0 \/ (dataOffset = Far /\ ~far)
             THEN bad("failed to seek to data offset")
        ELSE LET r == readRecord(Bytes(d, st.path), dataOffset)
             IN  [err |-> r.err, value |-> r.value]

\* -------------------------------------------------------------------- Get
\* Get admitting the line equal to lineCount
GetOp_offByOne(d, st, line, far) ==
    IF line > st.lineCount
    THEN [err |-> "line exceeds total lines", val |-> <<>>]
    ELSE LET r == readLine(d, st, line, far)
         IN  [err |-> r.err, val |-> r.value]

GetOp(d, st, line, far) ==
    IF line >= st.lineCount
    THEN [err |-> "line exceeds total lines", val |-> <<>>]
    ELSE LET r == readLine(d, st, line, far)
         IN  [err |-> r.err, val |-> r.value]

\* ------------------------------------------------------------------- List
RECURSIVE listFrom(_, _, _, _, _)
listFrom(f, pos, lineNum, lineCount, result) ==
    IF lineNum >= lineCount THEN [err |-> Ok, val |-> result]
    ELSE LET r == readRecord(f, pos)
         IN  IF r.err # Ok THEN [err |-> r.err, val |-> <<>>]
             ELSE listFrom(f, r.next, lineNum + 1, lineCount,
                           Append(result, <<lineNum, r.value>>))

ListOp(d, st) ==
    IF st.file # "open" THEN [err |-> "failed to seek to start", val |-> <<>>]
    ELSE listFrom(Bytes(d, st.path), 0, 0, st.lineCount, <<>>)

\* --------------------------------------------------------- ListAllReverse
RECURSIVE reverseFrom(_, _, _, _, _)
reverseFrom(d, st, lineNum, result, far) ==
    LET r == readLine(d, st, lineNum, far)
    IN  IF r.err # Ok THEN [err |-> r.err, val |-> <<>>]
        ELSE IF lineNum = 0
        THEN [err |-> Ok, val |-> Append(result, <<lineNum, r.value>>)]
        ELSE reverseFrom(d, st, lineNum - 1,
                         Append(result, <<lineNum, r.value>>), far)

ListAllReverseOp(d, st, far) ==
    IF st.lineCount = 0 THEN [err |-> Ok, val |-> <<>>]
    ELSE reverseFrom(d, st, st.lineCount - 1, <<>>, far)

\* ------------------------------------------------------------ GetLastLine
GetLastLineOp(st) ==
    IF st.lineCount = 0 THEN [err |-> "store is empty", val |-> 0]
    ELSE [err |-> Ok, val |-> st.lineCount - 1]


\* --------------------------------------------------------------- backupTo
\* fault: "none" or the step that fails: "create", "seek", "copy", "sync",
\* "icreate", "iseek", "icopy", "isync"; a failed copy has copied cut bytes.
\* The flag polished is not read by the code.
backupTo(d, st, path, polished, fault, cut) ==
    LET backupIndexPath == IdxPath(path)
        d1 == Truncate(d, path)
        d2 == [d1 EXCEPT ![path] = File(Bytes(d1, st.path))]
        d3 == Truncate(d2, backupIndexPath)
        d4 == [d3 EXCEPT ![backupIndexPath] = File(Bytes(d3, IdxPath(st.path)))]
        res(dd, msg) == [disk |-> dd, err |-> msg]
    IN  IF fault = "create" THEN res(d, "failed to create backup file")
        ELSE IF st.file # "open" \/ fault = "seek"
        THEN res(d1, "failed to seek to start")
        ELSE IF fault = "copy"
        THEN res([d1 EXCEPT ![path] = File(Take(Bytes(d1, st.path), cut))],
                 "failed to copy data file")
        ELSE IF fault = "sync" THEN res(d2, "failed to sync backup file")
        ELSE IF fault = "icreate"
        THEN res(d2, "failed to create backup index file")
        ELSE IF st.indexFile # "open" \/ fault = "iseek"
        THEN res(d3, "failed to seek to start of index file")
        ELSE IF fault = "icopy"
        THEN res([d3 EXCEPT ![backupIndexPath] =
                                File(Take(Bytes(d3, IdxPath(st.path)), cut))],
                 "failed to copy index file")
        ELSE IF fault = "isync" THEN res(d4, "failed to sync backup index file")
        ELSE res(d4, Ok)

BackupFaults ==
    {"create", "seek", "copy", "sync", "icreate", "iseek", "icopy", "isync"}

\* ----------------------------------------------------------------- Backup
BackupOp(d, st, path, polished, fault, cut) ==
    backupTo(d, st, path, polished, fault, cut)

\* ----------------------------------------------------------------- Polish
\* the steps of the rewrite loop that can fail after a record is read:
\* tempFile.Seek(0, io.SeekCurrent), tempFile.Write, tempIndexFile.Write
LoopFaults == {"tpos", "twrite", "tiwrite"}

\* the rewrite loop of Polish: records i..lineCount-1 are read at pos and
\* written to the temp data file (tmp) and the temp index file (itmp).  A
\* fault of LoopFaults strikes in the turn of record at; a failed write has
\* written cut bytes.
RECURSIVE rewriteFrom(_, _, _, _, _, _, _, _, _)
rewriteFrom(f, pos, i, lineCount, tmp, itmp, fault, cut, at) ==
    IF i >= lineCount
    THEN [err |-> Ok, tmp |-> tmp, itmp |-> itmp, newLine |-> i]
    ELSE LET r == readRecord(f, pos)
             record == Record(r.value)
             dataOffset == Size(tmp)
             indexEntry == IndexEntry(i, dataOffset)
             res(msg, tt, it) ==
                 [err |-> msg, tmp |-> tt, itmp |-> it, newLine |-> i]
         IN  IF r.err # Ok THEN res(r.err, tmp, itmp)
             ELSE IF i = at /\ fault = "tpos"
             THEN res("failed to get temp data offset", tmp, itmp)
             ELSE IF i = at /\ fault = "twrite"
             THEN res("failed to write polished record",
                      Cat(tmp, Take(record, cut)), itmp)
             ELSE IF i = at /\ fault = "tiwrite"
             THEN res("failed to write polished index entry",
                      Cat(tmp, record), Cat(itmp, Take(indexEntry, cut)))
             ELSE rewriteFrom(f, r.next, i + 1, lineCount,
                              Cat(tmp, record), Cat(itmp, indexEntry),
                              fault, cut, at)

\* os.Rename: the file at from is found at to, and no longer at from
Rename(d, from, to) == [d EXCEPT ![to] = d[from], ![from] = NoFile]

\* the temp files as the rewrite loop w leaves them
WithTemp(d, tempPath, tempIndexPath, w) ==
    [d EXCEPT ![tempPath] = File(w.tmp), ![tempIndexPath] = File(w.itmp)]

\* fault: "none", a fault of backupTo, or the step of Polish that fails:
\* "tcreate", "itcreate", "tseek", a fault of LoopFaults in the turn of
\* record at, "tsync", "itsync", "close", "iclose", "rename", "irename",
\* "reopen", "ireopen"
PolishOp(d, st, fault, cut, at) ==
    LET origPath == st.path
        tempPath == TmpPath(origPath)
        tempIndexPath == TmpPath(IdxPath(origPath))
        b == backupTo(d, st, BackupPath(origPath), FALSE,
                      IF fault \in BackupFaults THEN fault ELSE "none", cut)
        d1 == Truncate(b.disk, tempPath)
        d2 == Truncate(d1, tempIndexPath)
        w == rewriteFrom(Bytes(d2, origPath), 0, 0, st.lineCount, <<>>, <<>>,
                         fault, cut, at)
        d3 == WithTemp(d2, tempPath, tempIndexPath, w)
        d4 == Rename(d3, tempPath, origPath)
        d5 == Rename(d4, tempIndexPath, IdxPath(origPath))
        res(dd, ss, msg) == [disk |-> dd, s |-> ss, err |-> msg]
    IN  IF st.file = "nil" THEN res(d, st, "panic: nil pointer dereference")
        ELSE IF b.err # Ok THEN res(b.disk, st, b.err)
        ELSE IF fault = "tcreate"
        THEN res(b.disk, st, "failed to create temp data file")
        ELSE IF fault = "itcreate"
        THEN res(d1, st, "failed to create temp index file")
        ELSE IF fault = "tseek" THEN res(d2, st, "failed to seek to start")
        ELSE IF w.err # Ok THEN res(d3, st, w.err)
        ELSE IF fault = "tsync" THEN res(d3, st, "failed to sync temp data file")
        ELSE IF fault = "itsync"
        THEN res(d3, st, "failed to sync temp index file")
        ELSE IF fault = "close"
        THEN res(d3, [st EXCEPT !.file = "closed"],
                 "failed to close original data file")
        ELSE IF fault = "iclose"
        THEN res(d3, [st EXCEPT !.file = "closed", !.indexFile = "closed"],
                 "failed to close original index file")
        ELSE IF fault = "rename"
        THEN res(d3, [st EXCEPT !.file = "closed", !.indexFile = "closed"],
                 "failed to replace original data file")
        ELSE IF fault = "irename"
        THEN res(d4, [st EXCEPT !.file = "closed", !.indexFile = "closed"],
                 "failed to replace original index file")
        ELSE IF fault = "reopen"
        THEN res(d5, [st EXCEPT !.file = "nil", !.indexFile = "closed"],
                 "failed to reopen polished data file")
        ELSE IF fault = "ireopen"
        THEN res(d5, [st EXCEPT !.file = "closed", !.indexFile = "nil"],
                 "failed to reopen polished index file")
        ELSE res(d5, [st EXCEPT !.lineCount = w.newLine], Ok)

PolishFaults ==
    BackupFaults \cup LoopFaults
      \cup {"tcreate", "itcreate", "tseek", "tsync", "itsync",
            "close", "iclose", "rename", "irename", "reopen", "ireopen"}

\* ------------------------------------------------------------------ Close
\* fault: "none", "close" (closing the data file fails), "iclose" (closing
\* the index file fails) or "both"; closing a handle that is not open fails
\* Close returning the data-file error without closing the index file
CloseOp_skipsIndex(st, fault) ==
    LET dataFails == st.file # "open" \/ fault \in {"close", "both"}
        indexFails == st.indexFile # "open" \/ fault \in {"iclose", "both"}
        closed(h) == IF h = "nil" THEN "nil" ELSE "closed"
        st1 == [st EXCEPT !.file = closed(st.file)]
        st2 == [st1 EXCEPT !.indexFile = closed(st.indexFile)]
    IN  IF dataFails THEN [s |-> st1, err |-> "failed to close data file"]
        ELSE IF indexFails THEN [s |-> st2, err |-> "failed to close index file"]
        ELSE [s |-> st2, err |-> Ok]

CloseOp(st, fault) ==
    LET dataFails == st.file # "open" \/ fault \in {"close", "both"}
        indexFails == st.indexFile # "open" \/ fault \in {"iclose", "both"}
        closed(h) == IF h = "nil" THEN "nil" ELSE "closed"
        st2 == [st EXCEPT !.file = closed(st.file),
                          !.indexFile = closed(st.indexFile)]
    IN  IF dataFails THEN [s |-> st2, err |-> "failed to close data file"]
        ELSE IF indexFails THEN [s |-> st2, err |-> "failed to close index file"]
        ELSE [s |-> st2, err |-> Ok]


\* ============================================================ the machine
StorePaths == {Db}
BackupDests == {Bk, Db, IdxPath(Db)}
Lines == 0..MaxSets \cup {999}

Result(op, arg, err, val) == [op |-> op, arg |-> arg, err |-> err, val |-> val]

\* a call spends a fault when one of its steps is made to fail
Spend(fault, maint) ==
    /\ fault # "none" => used.faults < MaxFaults
    /\ used.maint + maint <= MaxMaint
    /\ used' = [used EXCEPT !.faults = @ + (IF fault = "none" THEN 0 ELSE 1),
                            !.maint = @ + maint]

\* the prefixes a failed write of the bytes w can leave
CutsOf(fault, partial, w) ==
    IF fault \in partial THEN {c \in Cuts : c < Size(w)} ELSE {0}

\* the turns of the rewrite loop in which a fault of Polish is made to
\* strike; it does not strike when the loop ends before that turn
TurnsOf(fault) ==
    IF fault \in LoopFaults THEN 0..(MaxSets - 1) ELSE {0}

\* no call made yet; the mutex free; a thread in no call; both handles at 0
NoneUsed == [sets |-> 0, faults |-> 0, maint |-> 0, calls |-> 0]
Unlocked == [writer |-> 0, readers |-> {}]
Idle == [pc |-> "idle", op |-> "none", arg |-> <<>>, line |-> 0, off |-> 0,
         len |-> 0, acc |-> <<>>, buf |-> <<>>, wpos |-> 0]
AtStart == [file |-> 0, indexFile |-> 0]
Threads == 1..NThreads

Init ==
    /\ disk = [p \in Paths |-> NoFile]
    /\ s = NoStore
    /\ ret = Result("none", <<>>, Ok, 0)
    /\ acked = <<>>
    /\ opened = [n |-> 0, base |-> 0]
    /\ used = NoneUsed
    /\ mu = Unlocked /\ th = [t \in Threads |-> Idle] /\ fpos = AtStart

\* s becomes the Store the call returns (none when it fails), whatever Store
\* was returned before and whether or not that one was closed
NewStore(path, fault) ==
    /\ Spend(fault, 0)
    /\ LET r == NewStoreOp(disk, path, fault)
       IN  /\ disk' = r.disk
           /\ s' = r.s
           /\ ret' = Result("NewStore", path, r.err, 0)
           /\ opened' = IF r.err = Ok
                        THEN [n |-> Len(acked), base |-> r.s.lineCount]
                        ELSE opened
    /\ UNCHANGED <<acked, cvars>>

Set(value, fault, cut) ==
    /\ s # NoStore
    /\ used.sets < MaxSets
    /\ fault # "none" => used.faults < MaxFaults
    /\ used' = [used EXCEPT !.sets = @ + 1,
                            !.faults = @ + (IF fault = "none" THEN 0 ELSE 1)]
    /\ LET r == SetOp(disk, s, value, fault, cut)
       IN  /\ disk' = r.disk
           /\ s' = r.s
           /\ ret' = Result("Set", value, r.err, r.val)
           /\ acked' = IF r.err = Ok THEN Append(acked, <<r.val, value>>)
                       ELSE acked
    /\ UNCHANGED <<opened, cvars>>

Get(line, far) ==
    /\ s # NoStore
    /\ LET r == GetOp(disk, s, line, far)
       IN  ret' = Result("Get", line, r.err, r.val)
    /\ UNCHANGED <<disk, s, acked, opened, used, cvars>>

List ==
    /\ s # NoStore
    /\ LET r == ListOp(disk, s)
       IN  ret' = Result("List", <<>>, r.err, r.val)
    /\ UNCHANGED <<disk, s, acked, opened, used, cvars>>

ListAllReverse(far) ==
    /\ s # NoStore
    /\ LET r == ListAllReverseOp(disk, s, far)
       IN  ret' = Result("ListAllReverse", <<>>, r.err, r.val)
    /\ UNCHANGED <<disk, s, acked, opened, used, cvars>>

GetLastLine ==
    /\ s # NoStore
    /\ LET r == GetLastLineOp(s)
       IN  ret' = Result("GetLastLine", <<>>, r.err, r.val)
    /\ UNCHANGED <<disk, s, acked, opened, used, cvars>>

Polish(fault, cut, at) ==
    /\ s # NoStore
    /\ Spend(fault, 1)
    /\ LET r == PolishOp(disk, s, fault, cut, at)
       IN  /\ disk' = r.disk
           /\ s' = r.s
           /\ ret' = Result("Polish", <<>>, r.err, 0)
    /\ UNCHANGED <<acked, opened, cvars>>

Backup(path, polished, fault, cut) ==
    /\ s # NoStore
    /\ Spend(fault, 1)
    /\ LET r == BackupOp(disk, s, path, polished, fault, cut)
       IN  /\ disk' = r.disk
           /\ ret' = Result("Backup", <<path, polished>>, r.err, 0)
    /\ UNCHANGED <<s, acked, opened, cvars>>

Close(fault) ==
    /\ s # NoStore
    /\ Spend(fault, 0)
    /\ LET r == CloseOp(s, fault)
       IN  /\ s' = r.s
           /\ ret' = Result("Close", fault, r.err, 0)
    /\ UNCHANGED <<disk, acked, opened, cvars>>

\* The process dies inside Set(value): the files keep what the steps before
\* point have written, the Store object is gone.  point names the step that
\* is not completed: "write" (cut bytes of the record are written), "sync"
\* or "iwrite" with cut 0 (the record is written, the index entry is not),
\* "iwrite" (cut bytes of the entry), "isync" (both are written).
CrashInSet(value, point, cut) ==
    /\ s # NoStore /\ s.file = "open" /\ s.indexFile = "open"
    /\ used.sets < MaxSets /\ used.faults < MaxFaults
    /\ used' = [used EXCEPT !.sets = @ + 1, !.faults = @ + 1]
    /\ disk' = SetOp(disk, s, value, point, cut).disk
    /\ s' = NoStore
    /\ ret' = Result("CrashInSet", <<value, point, cut>>, Ok, 0)
    /\ UNCHANGED <<acked, opened, cvars>>

\* The process dies inside Polish: the files keep what the steps before point
\* have done, the Store object is gone.  point names the step of Polish that
\* is not completed: "copy" (cut bytes of the backup are written), "tcreate"
\* (the backup is complete), "tsync" (the temp files are written), "irename"
\* (the data file is renamed, the index file is not).  The steps after the
\* rewrite loop are reached only when the loop reads every record.
CrashInPolish(point, cut) ==
    /\ s # NoStore /\ s.file = "open" /\ s.indexFile = "open"
    /\ used.faults < MaxFaults /\ used.maint < MaxMaint
    /\ used' = [used EXCEPT !.faults = @ + 1, !.maint = @ + 1]
    /\ \/ point \in {"copy", "tcreate"}
       \/ rewriteFrom(Bytes(disk, s.path), 0, 0, s.lineCount, <<>>, <<>>,
                      "none", 0, 0).err = Ok
    /\ disk' = PolishOp(disk, s, point, cut, 0).disk
    /\ s' = NoStore
    /\ ret' = Result("CrashInPolish", <<point, cut>>, Ok, 0)
    /\ UNCHANGED <<acked, opened, cvars>>

SetFaults == {"seek", "write", "sync", "iwrite", "isync"}
PolishCrashPoints == {"copy", "tcreate", "tsync", "irename"}
CrashPoints == {"write", "sync", "iwrite", "isync"}

Next ==
    \/ \E path \in StorePaths, fault \in {"none", "open", "iopen"} :
          NewStore(path, fault)
    \/ \E value \in Payloads, fault \in {"none"} \cup SetFaults :
          \E cut \in CutsOf(fault, {"write"}, Record(value))
                       \cup CutsOf(fault, {"iwrite"}, Run(0, EntrySize)) :
             Set(value, fault, cut)
    \/ \E line \in Lines, far \in BOOLEAN : Get(line, far)
    \/ List
    \/ \E far \in BOOLEAN : ListAllReverse(far)
    \/ GetLastLine
    \/ \E fault \in {"none"} \cup PolishFaults :
          \E cut \in CutsOf(fault, {"copy", "icopy", "twrite", "tiwrite"},
                            Run(0, HeaderSize)),
             at \in TurnsOf(fault) :
             Polish(fault, cut, at)
    \/ \E path \in BackupDests, polished \in BOOLEAN,
          fault \in {"none"} \cup BackupFaults :
          \E cut \in CutsOf(fault, {"copy", "icopy"}, Run(0, EntrySize)) :
             Backup(path, polished, fault, cut)
    \/ \E fault \in {"none", "close", "iclose", "both"} : Close(fault)
    \/ \E value \in Payloads, point \in CrashPoints :
          \E cut \in CutsOf(point, {"write"}, Record(value))
                       \cup CutsOf(point, {"iwrite"}, Run(0, EntrySize)) :
             CrashInSet(value, point, cut)
    \/ \E point \in PolishCrashPoints :
          \E cut \in CutsOf(point, {"copy"}, Run(0, EntrySize)) :
             CrashInPolish(point, cut)

Spec == Init /\ [][Next]_vars


\* ======================================================= opening any files
\* NewStore applied to files it did not write: a data file of up to MaxSets
\* whole records followed by a tail, and an index file of n entries.
RECURSIVE CatAll(_)
CatAll(q) == IF q = <<>> THEN <<>> ELSE Cat(q[1], CatAll(Tail(q)))

WholeRecords ==
    { CatAll(q) : q \in UNION { [1..n -> {Record(P0), Record(P1)}] : n \in 0..MaxSets } }

\* nothing, a header whose payload is missing, a header of 2^20 + 1 bytes
\* whose payload is missing, a partial header, a byte that is no record type
Tails ==
    { <<>>, Take(Record(P1), HeaderSize), Take(Record(PBig), HeaderSize),
      Take(Record(P1), 3), Run(1, 1) }

DataFiles == { Cat(w, tl) : w \in WholeRecords, tl \in Tails }

\* the index entries of the n records found from pos on, a record with a
\* missing payload included
RECURSIVE indexFrom(_, _, _, _)
indexFrom(f, pos, k, n) ==
    IF k >= n THEN <<>>
    ELSE LET next == IF pos + HeaderSize <= Size(f) /\ U32At(f, pos + 1) < Far
                     THEN pos + HeaderSize + U32At(f, pos + 1)
                     ELSE pos + HeaderSize
         IN  Cat(IndexEntry(k, pos), indexFrom(f, next, k + 1, n))

OpenInit ==
    /\ \E f \in DataFiles, n \in 0..(MaxSets + 1) :
          disk = [p \in Paths |->
                    IF p = Db THEN File(f)
                    ELSE IF p = IdxPath(Db) THEN File(indexFrom(f, 0, 0, n))
                    ELSE NoFile]
    /\ s = NoStore
    /\ ret = Result("none", <<>>, Ok, 0)
    /\ acked = <<>>
    /\ opened = [n |-> 0, base |-> 0]
    /\ used = NoneUsed
    /\ mu = Unlocked /\ th = [t \in Threads |-> Idle] /\ fpos = AtStart

OpenNext ==
    \/ \E path \in StorePaths : NewStore(path, "none")
    \/ \E line \in Lines, far \in BOOLEAN : Get(line, far)
    \/ List

SpecOpen == OpenInit /\ [][OpenNext]_vars


\* ===================================================== concurrent callers
\* Threads call Set, Get, List, ListAllReverse and Backup on one Store.  A
\* call takes the mutex, runs its seeks, reads and writes one at a time on
\* the two shared handles, and releases the mutex when it returns.  A read
\* starts at the handle's offset, returns the bytes asked for or those left
\* before the end of the file, and advances the offset by the bytes read; a
\* write on the Store's handles appends (O_APPEND) and leaves the offset at
\* the end of the file.  io.ReadFull and binary.Read read again after a read
\* that returned fewer bytes than asked for, and fail when a read returns
\* none; the bytes read so far are the local buf of the call.  A backup file
\* is written through a handle of the call's own, at the offset wpos.

\* the lock a call takes: Lock for Set, RLock for the others
LockKind(op) == IF op = "Set" THEN "w" ELSE "r"

CanLock(kind) ==
    IF kind = "w" THEN mu.writer = 0 /\ mu.readers = {} ELSE mu.writer = 0

Locked(t, kind) ==
    IF kind = "w" THEN [mu EXCEPT !.writer = t]
    ELSE [mu EXCEPT !.readers = @ \cup {t}]

Released(t) ==
    [writer |-> IF mu.writer = t THEN 0 ELSE mu.writer,
     readers |-> mu.readers \ {t}]

\* the first step of a call after it has taken the mutex
FirstStep(op) ==
    CASE op = "Set" -> "wseek"
      [] op = "Get" -> "iseek"
      [] op = "ListAllReverse" -> "iseek"
      [] op = "List" -> "seek0"
      [] op = "Backup" -> "bcreate"

\* the call of thread t returns: the deferred unlock runs
Finish(t, err, val) ==
    /\ th' = [th EXCEPT ![t] = Idle]
    /\ mu' = Released(t)
    /\ ret' = Result(th[t].op, th[t].arg, err, val)

\* the call of thread t goes on with the locals c
Goto(t, c) ==
    /\ th' = [th EXCEPT ![t] = c]
    /\ UNCHANGED <<mu, ret>>

\* thread t enters op(arg) and takes the mutex
Call(t, op, arg) ==
    /\ th[t].pc = "idle"
    /\ used.calls < MaxCalls
    /\ CanLock(LockKind(op))
    /\ mu' = Locked(t, LockKind(op))
    /\ th' = [th EXCEPT ![t] =
                [Idle EXCEPT !.pc = FirstStep(op), !.op = op, !.arg = arg,
                             !.line = IF op = "Get" THEN arg
                                      ELSE IF op = "ListAllReverse"
                                      THEN s.lineCount - 1
                                      ELSE 0]]
    /\ used' = [used EXCEPT !.calls = @ + 1,
                            !.maint = @ + (IF op = "Backup" THEN 1 ELSE 0)]
    /\ UNCHANGED <<disk, s, ret, acked, opened, fpos>>

\* Get, ListAllReverse: the range check and s.indexFile.Seek(line * 16)
IndexSeek(t) ==
    LET c == th[t]
    IN  /\ c.pc = "iseek"
        /\ IF c.op = "Get" /\ c.line >= s.lineCount
           THEN Finish(t, "line exceeds total lines", <<>>) /\ UNCHANGED fpos
           ELSE IF c.op = "ListAllReverse" /\ s.lineCount = 0
           THEN Finish(t, Ok, <<>>) /\ UNCHANGED fpos
           ELSE /\ fpos' = [fpos EXCEPT !.indexFile = c.line * EntrySize]
                /\ Goto(t, [c EXCEPT !.pc = "iread"])
        /\ UNCHANGED <<disk, s, acked, opened, used>>

\* Get, ListAllReverse: one read of io.ReadFull of the 16 bytes of the
\* index entry
IndexRead(t) ==
    LET c == th[t]
        b == Slice(Bytes(disk, IdxPath(s.path)), fpos.indexFile,
                   EntrySize - Size(c.buf))
        entry == Cat(c.buf, b)
    IN  /\ c.pc = "iread"
        /\ fpos' = [fpos EXCEPT !.indexFile = @ + Size(b)]
        /\ IF b = <<>>
           THEN Finish(t, "failed to read index entry", <<>>)
           ELSE IF Size(entry) < EntrySize
           THEN Goto(t, [c EXCEPT !.buf = entry])
           ELSE Goto(t, [c EXCEPT !.pc = "seek", !.off = U64At(entry, 8),
                                  !.buf = <<>>])
        /\ UNCHANGED <<disk, s, acked, opened, used>>

\* Get, ListAllReverse: s.file.Seek(dataOffset); the seek to a Far offset
\* succeeds or fails, as in readLine
DataSeek(t) ==
    LET c == th[t]
    IN  /\ c.pc = "seek"
        /\ \E far \in BOOLEAN :
              IF c.off < 0 \/ (c.off = Far /\ ~far)
              THEN Finish(t, "failed to seek to data offset", <<>>)
                   /\ UNCHANGED fpos
              ELSE /\ fpos' = [fpos EXCEPT !.file = c.off]
                   /\ Goto(t, [c EXCEPT !.pc = "type"])
        /\ UNCHANGED <<disk, s, acked, opened, used>>

\* List: s.file.Seek(0), and the loop test before the first record
ListSeek(t) ==
    LET c == th[t]
    IN  /\ c.pc = "seek0"
        /\ fpos' = [fpos EXCEPT !.file = 0]
        /\ IF s.lineCount = 0 THEN Finish(t, Ok, <<>>)
           ELSE Goto(t, [c EXCEPT !.pc = "type"])
        /\ UNCHANGED <<disk, s, acked, opened, used>>

\* Get, List, ListAllReverse: binary.Read of the type byte
ReadType(t) ==
    LET c == th[t]
        b == Slice(Bytes(disk, s.path), fpos.file, 1)
    IN  /\ c.pc = "type"
        /\ fpos' = [fpos EXCEPT !.file = @ + Size(b)]
        /\ IF b = <<>> THEN Finish(t, "failed to read type byte", <<>>)
           ELSE IF b[1][1] # 0 THEN Finish(t, "invalid record type", <<>>)
           ELSE Goto(t, [c EXCEPT !.pc = "len"])
        /\ UNCHANGED <<disk, s, acked, opened, used>>

\* Get, List, ListAllReverse: one read of binary.Read of the 4 length bytes
ReadLen(t) ==
    LET c == th[t]
        b == Slice(Bytes(disk, s.path), fpos.file,
                   HeaderSize - 1 - Size(c.buf))
        lenBytes == Cat(c.buf, b)
    IN  /\ c.pc = "len"
        /\ fpos' = [fpos EXCEPT !.file = @ + Size(b)]
        /\ IF b = <<>>
           THEN Finish(t, "failed to read value length", <<>>)
           ELSE IF Size(lenBytes) < HeaderSize - 1
           THEN Goto(t, [c EXCEPT !.buf = lenBytes])
           ELSE IF U32At(lenBytes, 0) > MaxValLen
           THEN Finish(t, "invalid value length", <<>>)
           ELSE Goto(t, [c EXCEPT !.pc = "value", !.len = U32At(lenBytes, 0),
                                  !.buf = <<>>])
        /\ UNCHANGED <<disk, s, acked, opened, used>>

\* Get, List, ListAllReverse: one read of io.ReadFull of the value (none for
\* a value of no bytes), and what follows the last one: the return of Get,
\* the next turn of the loop or the return of the lists
ReadValue(t) ==
    LET c == th[t]
        b == Slice(Bytes(disk, s.path), fpos.file, c.len - Size(c.buf))
        v == Cat(c.buf, b)
        acc == Append(c.acc, <<c.line, v>>)
    IN  /\ c.pc = "value"
        /\ fpos' = [fpos EXCEPT !.file = @ + Size(b)]
        /\ IF c.len > 0 /\ b = <<>>
           THEN Finish(t, "failed to read value", <<>>)
           ELSE IF Size(v) < c.len THEN Goto(t, [c EXCEPT !.buf = v])
           ELSE IF c.op = "Get" THEN Finish(t, Ok, v)
           ELSE IF c.op = "List"
           THEN IF c.line + 1 >= s.lineCount THEN Finish(t, Ok, acc)
                ELSE Goto(t, [c EXCEPT !.pc = "type", !.line = @ + 1,
                                       !.acc = acc, !.buf = <<>>])
           ELSE IF c.line = 0 THEN Finish(t, Ok, acc)
                ELSE Goto(t, [c EXCEPT !.pc = "iseek", !.line = @ - 1,
                                       !.acc = acc, !.buf = <<>>])
        /\ UNCHANGED <<disk, s, acked, opened, used>>

\* backupTo: the backup file is created and truncated; the new handle is
\* at offset 0
BackupCreate(t) ==
    LET c == th[t]
    IN  /\ c.pc = "bcreate"
        /\ disk' = Truncate(disk, c.arg[1])
        /\ Goto(t, [c EXCEPT !.pc = "bseek", !.wpos = 0])
        /\ UNCHANGED <<s, acked, opened, used, fpos>>

\* backupTo: s.file.Seek(0)
BackupSeek(t) ==
    LET c == th[t]
    IN  /\ c.pc = "bseek"
        /\ fpos' = [fpos EXCEPT !.file = 0]
        /\ Goto(t, [c EXCEPT !.pc = "bcopy"])
        /\ UNCHANGED <<disk, s, acked, opened, used>>

\* backupTo: one read of io.Copy on s.file, which returns the bytes from the
\* offset to the end of the file (a file of the model that another call reads
\* beside the copy is shorter than one buffer of io.Copy); a read that
\* returns none ends the copy, and the backup file is synced
BackupCopy(t) ==
    LET c == th[t]
        b == Drop(Bytes(disk, s.path), fpos.file)
    IN  /\ c.pc = "bcopy"
        /\ fpos' = [fpos EXCEPT !.file = @ + Size(b)]
        /\ IF b = <<>> THEN Goto(t, [c EXCEPT !.pc = "bicreate"])
           ELSE Goto(t, [c EXCEPT !.pc = "bwrite", !.buf = b])
        /\ UNCHANGED <<disk, s, acked, opened, used>>

\* backupTo: io.Copy writes the bytes it read to the backup file, at the
\* offset of the backup handle
BackupWrite(t) ==
    LET c == th[t]
    IN  /\ c.pc = "bwrite"
        /\ disk' = WriteAt(disk, c.arg[1], c.wpos, c.buf)
        /\ Goto(t, [c EXCEPT !.pc = "bcopy", !.wpos = @ + Size(c.buf),
                               !.buf = <<>>])
        /\ UNCHANGED <<s, acked, opened, used, fpos>>

\* backupTo: the backup index file is created and truncated; the new handle
\* is at offset 0
BackupIndexCreate(t) ==
    LET c == th[t]
    IN  /\ c.pc = "bicreate"
        /\ disk' = Truncate(disk, IdxPath(c.arg[1]))
        /\ Goto(t, [c EXCEPT !.pc = "biseek", !.wpos = 0])
        /\ UNCHANGED <<s, acked, opened, used, fpos>>

\* backupTo: s.indexFile.Seek(0)
BackupIndexSeek(t) ==
    LET c == th[t]
    IN  /\ c.pc = "biseek"
        /\ fpos' = [fpos EXCEPT !.indexFile = 0]
        /\ Goto(t, [c EXCEPT !.pc = "bicopy"])
        /\ UNCHANGED <<disk, s, acked, opened, used>>

\* backupTo: one read of io.Copy on s.indexFile; a read that returns none
\* ends the copy, the backup index file is synced and the call returns
BackupIndexCopy(t) ==
    LET c == th[t]
        b == Drop(Bytes(disk, IdxPath(s.path)), fpos.indexFile)
    IN  /\ c.pc = "bicopy"
        /\ fpos' = [fpos EXCEPT !.indexFile = @ + Size(b)]
        /\ IF b = <<>> THEN Finish(t, Ok, 0)
           ELSE Goto(t, [c EXCEPT !.pc = "biwrite", !.buf = b])
        /\ UNCHANGED <<disk, s, acked, opened, used>>

\* backupTo: io.Copy writes the bytes it read to the backup index file, at
\* the offset of the backup index handle
BackupIndexWrite(t) ==
    LET c == th[t]
    IN  /\ c.pc = "biwrite"
        /\ disk' = WriteAt(disk, IdxPath(c.arg[1]), c.wpos, c.buf)
        /\ Goto(t, [c EXCEPT !.pc = "bicopy", !.wpos = @ + Size(c.buf),
                               !.buf = <<>>])
        /\ UNCHANGED <<s, acked, opened, used, fpos>>

\* Set: s.file.Seek(0, io.SeekEnd)
SetSeek(t) ==
    LET c == th[t]
        end == Size(Bytes(disk, s.path))
    IN  /\ c.pc = "wseek"
        /\ fpos' = [fpos EXCEPT !.file = end]
        /\ Goto(t, [c EXCEPT !.pc = "wwrite", !.off = end])
        /\ UNCHANGED <<disk, s, acked, opened, used>>

\* Set: s.file.Write(record) and s.file.Sync()
SetWrite(t) ==
    LET c == th[t]
        d1 == AppendTo(disk, s.path, Record(c.arg))
    IN  /\ c.pc = "wwrite"
        /\ disk' = d1
        /\ fpos' = [fpos EXCEPT !.file = Size(Bytes(d1, s.path))]
        /\ Goto(t, [c EXCEPT !.pc = "wiwrite"])
        /\ UNCHANGED <<s, acked, opened, used>>

\* Set: lineNum := s.lineCount, s.indexFile.Write(indexEntry) and the sync
SetIndexWrite(t) ==
    LET c == th[t]
        d2 == AppendTo(disk, IdxPath(s.path), IndexEntry(s.lineCount, c.off))
    IN  /\ c.pc = "wiwrite"
        /\ disk' = d2
        /\ fpos' = [fpos EXCEPT !.indexFile = Size(Bytes(d2, IdxPath(s.path)))]
        /\ Goto(t, [c EXCEPT !.pc = "wcount", !.line = s.lineCount])
        /\ UNCHANGED <<s, acked, opened, used>>

\* Set: s.lineCount++ and the return of lineNum
SetCount(t) ==
    LET c == th[t]
    IN  /\ c.pc = "wcount"
        /\ s' = [s EXCEPT !.lineCount = @ + 1]
        /\ acked' = Append(acked, <<c.line, c.arg>>)
        /\ Finish(t, Ok, c.line)
        /\ UNCHANGED <<disk, opened, used, fpos>>

\* the store after NewStore on an empty directory and the Sets of q
RECURSIVE loadFrom(_, _)
loadFrom(r, q) ==
    IF q = <<>> THEN r
    ELSE loadFrom(SetOp(r.disk, r.s, Head(q), "none", 0), Tail(q))

ConcLines == 0..MaxSets

ConcInit ==
    /\ \E q \in UNION { [1..n -> {P0, P1}] : n \in 0..MaxSets } :
          LET r == loadFrom(NewStoreOp([p \in Paths |-> NoFile], Db, "none"), q)
          IN  /\ disk = r.disk
              /\ s = r.s
              /\ acked = [i \in 1..Len(q) |-> <<i - 1, q[i]>>]
              /\ used = [NoneUsed EXCEPT !.sets = Len(q)]
              /\ fpos = [file |-> Size(Bytes(r.disk, Db)),
                         indexFile |-> Size(Bytes(r.disk, IdxPath(Db)))]
    /\ ret = Result("none", <<>>, Ok, 0)
    /\ opened = [n |-> 0, base |-> 0]
    /\ mu = Unlocked
    /\ th = [t \in Threads |-> Idle]

ConcNext ==
    \E t \in Threads :
       \/ \E value \in Payloads : Call(t, "Set", value)
       \/ \E line \in ConcLines : Call(t, "Get", line)
       \/ Call(t, "List", <<>>)
       \/ Call(t, "ListAllReverse", <<>>)
       \/ Call(t, "Backup", <<Bk, FALSE>>)
       \/ IndexSeek(t) \/ IndexRead(t) \/ DataSeek(t) \/ ListSeek(t)
       \/ ReadType(t) \/ ReadLen(t) \/ ReadValue(t)
       \/ BackupCreate(t) \/ BackupSeek(t) \/ BackupCopy(t) \/ BackupWrite(t)
       \/ BackupIndexCreate(t) \/ BackupIndexSeek(t) \/ BackupIndexCopy(t)
       \/ BackupIndexWrite(t)
       \/ SetSeek(t) \/ SetWrite(t) \/ SetIndexWrite(t) \/ SetCount(t)

SpecConc == ConcInit /\ [][ConcNext]_vars


\* ============================================================== the claims
DataPath == Db
IndexPath == IdxPath(Db)

\* the results Get(line) can return on the store st with the files d
GetResults(d, st, line) == { GetOp(d, st, line, far) : far \in BOOLEAN }

\* both handles of the Store are open
IsOpen(st) == st.file = "open" /\ st.indexFile = "open"

\* the step is a call of Set that returned
SetStep == ret'.op = "Set" /\ used'.sets = used.sets + 1

\* C1: if Set(P) succeeds and returns ordinal k, a following Get(k) on the
\* same store succeeds and returns exactly P, for payloads of any length.
C1_RoundTrip ==
    [][(ret.op = "Set" /\ ret.err = Ok /\ ret'.op = "Get" /\ ret'.arg = ret.val)
         => (ret'.err = Ok /\ ret'.val = ret.arg)]_vars

\* C2: after successful Set calls and a Close, with no failed call and no
\* Polish or Backup before, NewStore at the same path succeeds, recovers the
\* same record count, and Get(k) yields the payload appended at k for every
\* ordinal k returned earlier.
C2_Persistence ==
    [][(/\ ret.op = "Close" /\ ret.err = Ok
        /\ ret'.op = "NewStore"
        /\ used'.faults = 0 /\ used'.maint = 0)
         => /\ ret'.err = Ok
            /\ s'.lineCount = s.lineCount
            /\ \A i \in 1..Len(acked) :
                  GetResults(disk', s', acked[i][1])
                    = {[err |-> Ok, val |-> acked[i][2]]}]_vars

\* C3: every successful Set returns the record count held before the call
\* and raises the count by exactly one, a failed Set leaves the count alone,
\* and so the successful Set calls on a store return, in order, the count it
\* was opened with, that count plus one, ...: 0, 1, 2, ... on a fresh store.
C3_MonotonicOrdinals ==
    /\ [][SetStep =>
            IF ret'.err = Ok
            THEN ret'.val = s.lineCount /\ s'.lineCount = s.lineCount + 1
            ELSE s'.lineCount = s.lineCount]_vars
    /\ [](\A i \in (opened.n + 1)..Len(acked) :
             acked[i][1] = opened.base + (i - opened.n - 1))

\* C3 witness: a Set succeeds after a failed Set on the same store
C3_Witness ==
    /\ ret.op = "Set" /\ ret.err = Ok
    /\ used.sets = 2 /\ Len(acked) = 1 /\ used.faults = 1

\* C4: a successful Polish leaves the record count unchanged and Get(k)
\* returns the same after Polish as before it, for every k below the count.
C4_PolishIdempotent ==
    [][(ret'.op = "Polish" /\ used'.maint = used.maint + 1 /\ ret'.err = Ok)
         => /\ s'.lineCount = s.lineCount
            /\ \A k \in 0..(s.lineCount - 1) :
                  GetResults(disk', s', k) = GetResults(disk, s, k)]_vars

\* C5: after values are appended and Backup(dest, false) succeeds,
\* NewStore(dest) succeeds and
\* Get(k) on it returns the same payload as Get(k) on the source, for every
\* ordinal k returned by a Set before the backup.
C5_BackupFidelity ==
    (ret.op = "Backup" /\ ret.err = Ok /\ ret.arg[2] = FALSE /\ Len(acked) > 0)
      => LET o == NewStoreOp(disk, ret.arg[1], "none")
         IN  /\ o.err = Ok
             /\ \A i \in 1..Len(acked), far \in BOOLEAN :
                   LET b == GetOp(o.disk, o.s, acked[i][1], far)
                       g == GetOp(disk, s, acked[i][1], far)
                   IN  (b.err = Ok) = (g.err = Ok) /\ b.val = g.val

\* the pairs List is to return after the appends recorded in acked
ExpectedList == [i \in 1..Len(acked) |-> <<i - 1, acked[i][2]>>]
Reverse(q) == [i \in 1..Len(q) |-> q[Len(q) + 1 - i]]

\* C6: after N successful appends List returns exactly the N pairs
\* (0,P0),...,(N-1,P(N-1)) in ascending order and ListAllReverse the same
\* pairs in descending order; on an empty store both return the empty list.
C6_Enumeration ==
    /\ (ret.op = "List" /\ IsOpen(s))
         => (ret.err = Ok /\ ret.val = ExpectedList)
    /\ (ret.op = "ListAllReverse" /\ IsOpen(s))
         => (ret.err = Ok /\ ret.val = Reverse(ExpectedList))

\* C7: Get(n) returns an error and no payload for every n at or above the
\* record count, GetLastLine returns an error on a store with zero records,
\* and neither failing call changes the record count or the two files.
C7_RangeEnforcement ==
    [][/\ (ret'.op = "Get" /\ ret'.arg >= s.lineCount)
            => (ret'.err # Ok /\ ret'.val = <<>> /\ disk' = disk /\ s' = s)
       /\ (ret'.op = "GetLastLine" /\ s.lineCount = 0)
            => (ret'.err # Ok /\ disk' = disk /\ s' = s)]_vars

\* C7 witness: Get of the first ordinal not yet assigned, on an open store
\* that holds records, has failed
C7_Witness ==
    /\ ret.op = "Get" /\ ret.arg = s.lineCount /\ ret.err # Ok
    /\ s.lineCount > 0 /\ IsOpen(s)

\* C8: NewStore fails whenever the index file's size differs from 16 times
\* the number of records counted in the data file, succeeds only when the
\* two are equal, and leaves the bytes of both files as they were.
C8_CorruptionAtOpen ==
    [][ret'.op = "NewStore" =>
         LET path == ret'.arg
             scan == scanRecords(Bytes(disk, path), 0, 0)
             indexSize == Size(Bytes(disk, IdxPath(path)))
         IN  /\ indexSize # EntrySize * scan.n => ret'.err # Ok
             /\ ret'.err = Ok => (scan.err = Ok /\ indexSize = EntrySize * scan.n)
             /\ Bytes(disk', path) = Bytes(disk, path)
             /\ Bytes(disk', IdxPath(path)) = Bytes(disk, IdxPath(path))]_vars

\* C8 witness: NewStore has refused a data file that holds records because
\* the index file is longer than 16 bytes per record
C8_Witness ==
    /\ ret.op = "NewStore" /\ ret.err = "index file size does not match"
    /\ scanRecords(Bytes(disk, DataPath), 0, 0).n > 0
    /\ Size(Bytes(disk, IndexPath))
         > EntrySize * scanRecords(Bytes(disk, DataPath), 0, 0).n

\* C9: whenever Set returns an error, the data file, the index file and the
\* record count are the same as before the call.
C9_NoPartialMutation ==
    [][(SetStep /\ ret'.err # Ok)
         => /\ Bytes(disk', s.path) = Bytes(disk, s.path)
            /\ Bytes(disk', IdxPath(s.path)) = Bytes(disk, IdxPath(s.path))
            /\ s'.lineCount = s.lineCount]_vars

\* the step is the process dying in Set after the data sync and before the
\* index write
CrashBetween ==
    /\ ret'.op = "CrashInSet" /\ used'.sets = used.sets + 1
    /\ \/ ret'.arg[2] = "sync"
       \/ ret'.arg[2] = "iwrite" /\ ret'.arg[3] = 0

RecordsHeld(d) == scanRecords(Bytes(d, DataPath), 0, 0).n

\* C10: the index never describes more records than the data file holds;
\* after a crash between the data sync and the index write the data file
\* holds exactly one more record than the index, and the next NewStore on
\* that path fails with the size-mismatch error.
C10_AppendOrdering ==
    /\ [](Size(Bytes(disk, IndexPath)) <= EntrySize * RecordsHeld(disk))
    /\ [][CrashBetween =>
            /\ EntrySize * RecordsHeld(disk')
                 = Size(Bytes(disk', IndexPath)) + EntrySize
            /\ NewStoreOp(disk', DataPath, "none").err
                 = "index file size does not match"]_vars

\* the offset at which the k-th record in physical file order starts when
\* the records are walked from pos; -1 when the file holds no such record
RECURSIVE recordStart(_, _, _)
recordStart(f, pos, k) ==
    IF pos + HeaderSize > Size(f) \/ ByteAt(f, pos) # 0 THEN -1
    ELSE IF U32At(f, pos + 1) > Size(f) - (pos + HeaderSize) THEN -1
    ELSE IF k = 0 THEN pos
    ELSE recordStart(f, pos + HeaderSize + U32At(f, pos + 1), k - 1)

\* C13: on an open store, for every k below the record count the k-th index
\* entry holds ordinal k and the offset at which the k-th record in physical
\* order starts, and Get(k) and the k-th pair of List, when both are
\* returned, carry the same payload.
C13_IndexDataCorrespondence ==
    (s # NoStore /\ IsOpen(s)) =>
      \A k \in 0..(s.lineCount - 1) :
         LET data == Bytes(disk, s.path)
             idx == Bytes(disk, IdxPath(s.path))
             start == recordStart(data, 0, k)
             l == ListOp(disk, s)
         IN  /\ start >= 0
             /\ Slice(idx, k * EntrySize, EntrySize) = IndexEntry(k, start)
             /\ \A g \in GetResults(disk, s, k) :
                   (g.err = Ok /\ l.err = Ok) => l.val[k + 1] = <<k, g.val>>

\* the operations C14 names
ReadOrWriteOps ==
    {"NewStore", "Set", "Get", "List", "ListAllReverse", "GetLastLine",
     "Polish", "Backup"}

\* C14: after every successful NewStore, Set, Get, List, ListAllReverse,
\* GetLastLine, Polish and Backup the index file's size is exactly 16 times
\* the in-memory record count.
C14_IndexSize ==
    (ret.op \in ReadOrWriteOps /\ ret.err = Ok /\ s # NoStore)
      => Size(Bytes(disk, IdxPath(s.path))) = EntrySize * s.lineCount

\* the step is the process dying in Polish before both renames have
\* completed: before the first rename, or between the two
CrashBeforeRenamesDone ==
    /\ ret'.op = "CrashInPolish" /\ used'.maint = used.maint + 1
    /\ ret'.arg[1] \in {"copy", "tcreate", "tsync", "irename"}

\* C15: after a crash in Polish before both renames have completed, the
\* files at the live paths open with NewStore and yield the same record
\* count and, for every ordinal, the same Get result as before Polish.
C15_CrashDuringPolish ==
    [][CrashBeforeRenamesDone =>
         LET o == NewStoreOp(disk', s.path, "none")
         IN  /\ o.err = Ok
             /\ o.s.lineCount = s.lineCount
             /\ \A k \in 0..(s.lineCount - 1) :
                   GetResults(o.disk, o.s, k) = GetResults(disk, s, k)]_vars

\* the step is a call of Polish that returned an error
PolishFailed ==
    /\ ret'.op = "Polish" /\ used'.maint = used.maint + 1
    /\ ret'.err # Ok /\ ret'.err # "panic: nil pointer dereference"

\* C16: whenever Polish returns an error, the live data and index files
\* have the contents they had before the call, the record count is
\* unchanged, and Get(k) on the same Store returns what it returned before.
C16_FailedPolish ==
    [][PolishFailed =>
         /\ Bytes(disk', s.path) = Bytes(disk, s.path)
         /\ Bytes(disk', IdxPath(s.path)) = Bytes(disk, IdxPath(s.path))
         /\ s'.lineCount = s.lineCount
         /\ \A k \in 0..(s.lineCount - 1) :
               GetResults(disk', s', k) = GetResults(disk, s, k)]_vars

\* the byte string f is a prefix of the byte string g
IsPrefix(f, g) == Size(f) <= Size(g) /\ Take(g, Size(f)) = f

\* the operations other than Polish that C19 names
NonPolishOps ==
    {"Set", "Get", "List", "ListAllReverse", "GetLastLine", "Backup"}

\* C19: across every operation other than Polish the bytes of the data file
\* before the operation are a prefix of its bytes after it; a Polish step
\* leaves the data file as it was or replaces it by the whole rewritten file.
C19_AppendOnly ==
    [][/\ (s # NoStore /\ ret'.op \in NonPolishOps)
            => IsPrefix(Bytes(disk, s.path), Bytes(disk', s.path))
       /\ (s # NoStore /\ ret'.op = "Polish")
            => \/ Bytes(disk', s.path) = Bytes(disk, s.path)
               \/ Bytes(disk', s.path)
                    = rewriteFrom(Bytes(disk, s.path), 0, 0, s.lineCount,
                                  <<>>, <<>>, "none", 0, 0).tmp]_vars

\* C20: for every destination path and either value of the polished flag,
\* Backup changes neither the contents of the source store's data file and
\* index file nor its record count, whether it succeeds or fails.
C20_BackupLeavesSource ==
    [][(s # NoStore /\ ret'.op = "Backup")
         => /\ Bytes(disk', s.path) = Bytes(disk, s.path)
            /\ Bytes(disk', IdxPath(s.path)) = Bytes(disk, IdxPath(s.path))
            /\ s'.lineCount = s.lineCount]_vars

\* walking the records of f from pos, one is found whose declared payload
\* length extends past the end of the file
RECURSIVE HasOverrun(_, _)
HasOverrun(f, pos) ==
    IF pos + HeaderSize > Size(f) \/ ByteAt(f, pos) # 0 THEN FALSE
    ELSE IF U32At(f, pos + 1) > Size(f) - (pos + HeaderSize) THEN TRUE
    ELSE HasOverrun(f, pos + HeaderSize + U32At(f, pos + 1))

\* the number of records of f, from pos on, that lie wholly inside the file
RECURSIVE WholeCount(_, _)
WholeCount(f, pos) ==
    IF recordStart(f, pos, 0) < 0 THEN 0
    ELSE 1 + WholeCount(f, pos + HeaderSize + U32At(f, pos + 1))

\* C17: NewStore fails when the data file contains a record whose declared
\* payload length extends past the end of the file, whatever the size of the
\* index file, and a store that opens counts only records that lie wholly
\* inside the file.
C17_OverrunAtOpen ==
    [][ret'.op = "NewStore" =>
         /\ HasOverrun(Bytes(disk, ret'.arg), 0) => ret'.err # Ok
         /\ ret'.err = Ok => s'.lineCount = WholeCount(Bytes(disk, ret'.arg), 0)]_vars

\* the step is the return of the call thread t is in
Returns(t) == th[t].pc # "idle" /\ th'[t].pc = "idle"

\* the results the call op(arg) can return when it runs alone on the store
Serial(op, arg) ==
    CASE op = "Get" -> GetResults(disk, s, arg)
      [] op = "List" -> {ListOp(disk, s)}
      [] op = "ListAllReverse" ->
           { ListAllReverseOp(disk, s, far) : far \in BOOLEAN }

\* C11: when threads call Get, List and ListAllReverse on the same Store at
\* the same time, every call returns exactly the result it would return if
\* the calls ran one at a time.
C11_SerializedLookups ==
    [][\A t \in Threads :
         (Returns(t) /\ th[t].op \in {"Get", "List", "ListAllReverse"})
           => [err |-> ret'.err, val |-> ret'.val]
                \in Serial(th[t].op, th[t].arg)]_vars

\* C12: a Backup never runs at the same time as a Set, and a Backup that
\* succeeds while only lookups run beside it (it is the one Backup called)
\* leaves destination data and index files that are byte-for-byte copies of
\* the source files.
C12_ConcurrentBackup ==
    /\ [](\A t, u \in Threads : ~(th[t].op = "Backup" /\ th[u].op = "Set"))
    /\ [][\A t \in Threads :
            (Returns(t) /\ th[t].op = "Backup" /\ ret'.err = Ok
               /\ used.maint = 1)
              => /\ Bytes(disk', th[t].arg[1]) = Bytes(disk', s.path)
                 /\ Bytes(disk', IdxPath(th[t].arg[1]))
                      = Bytes(disk', IdxPath(s.path))]_vars

\* C18: the successful Set calls of concurrent threads return pairwise
\* distinct ordinals that continue the count held before them without a gap,
\* and once the calls have returned Get(k) returns, for each returned
\* ordinal k, the payload passed to the Set call that returned k.
C18_ExclusiveAppends ==
    /\ \A i \in 1..Len(acked) : acked[i][1] = i - 1
    /\ (\A t \in Threads : th[t].pc = "idle")
         => \A i \in 1..Len(acked) :
               GetResults(disk, s, acked[i][1])
                 = {[err |-> Ok, val |-> acked[i][2]]}

\* C21: Close closes the index file also when closing the data file fails;
\* it returns an error exactly when at least one of the two closes fails,
\* the data-file error when the data close fails (also when both fail) and
\* the index-file error when only the index close fails.
C21_Close ==
    [][ret'.op = "Close" =>
         LET fault == ret'.arg
             dataFails == s.file # "open" \/ fault \in {"close", "both"}
             indexFails == s.indexFile # "open" \/ fault \in {"iclose", "both"}
         IN  /\ s'.file # "open" /\ s'.indexFile # "open"
             /\ (ret'.err # Ok) = (dataFails \/ indexFails)
             /\ dataFails => ret'.err = "failed to close data file"
             /\ (~dataFails /\ indexFails)
                  => ret'.err = "failed to close index file"]_vars

\* C21 witness: on a store that holds a record, closing both files has
\* failed; the data-file error is returned and the index handle is closed
C21_Witness ==
    /\ ret.op = "Close" /\ ret.arg = "both"
    /\ ret.err = "failed to close data file"
    /\ s.indexFile = "closed" /\ s.lineCount > 0

====
